---- MODULE Spec2Model ----
(***************************************************************************)
(* Door monitor (BackEnd/door_monitor.py): the edge handler update_status, *)
(* the daily job new_day_is_here, the two local JSON files and the         *)
(* Firestore collection "door_data".                                       *)
(*                                                                         *)
(* Dates are modelled by their ordinal (1, 2, ...): get_today_date formats *)
(* date.today() as 'yyyy-mm-dd', an injective map that the code only ever  *)
(* compares for equality and uses as a dictionary key / document id.       *)
(***************************************************************************)
EXTENDS Integers, Sequences, FiniteSets, TLC

\* ---------- bounds ----------
MaxTime == 6        \* last value of the seconds clock
MaxDay  == 4        \* last calendar day
MaxFailures == 2    \* remote calls that raise, in one behaviour
BootDay == 2        \* calendar day on which a process with persisted files starts
PersistedTime == 1  \* last timestamp that persisted files may hold

Days == 1..MaxDay

VARIABLES
  status_data,   \* current_status.json: [isOpen, lastOpened, lastClosed]
  day_data,      \* day_data.json: ordered mapping date -> entry, as a sequence
  db_days,       \* door_data/<date_id> documents: function on the existing ids
  db_status,     \* door_data/current_status: <<>> or <<doc>>
  now,           \* wall clock, epoch seconds
  today,         \* wall clock, calendar date
  timerFired,    \* the 00:01 cron job of `today` has run
  lastEdge,      \* time of the last edge delivered by the Button
  upserts,       \* log of document(date_id).set calls
  pushes,        \* log of document("current_status").set calls
  appended,      \* per date: the episodes appended while day_data was dated so
  openedAt,      \* time of the latest edge that opened the door, 0 if none
  failures,      \* number of remote calls that raised so far
  files,         \* per file: "absent", "empty" or "present" (exists, size > 0)
  last,          \* the last handler run: its input and the state it started in
  pcE,           \* position of the Button callback thread inside update_status
  pcT,           \* position of the scheduler thread inside new_day_is_here
  eloc,          \* local variables of the running update_status call
  tloc,          \* local variables of the running new_day_is_here call
  snap           \* the state in which two overlapping handlers were started

vars == <<status_data, day_data, db_days, db_status, now, today, timerFired,
          lastEdge, upserts, pushes, appended, openedAt, failures, files, last,
          pcE, pcT, eloc, tloc, snap>>

threadVars == <<pcE, pcT, eloc, tloc, snap>>

\* ---------- the state a handler works on ----------
World ==
  [sd |-> status_data, dd |-> day_data, db |-> db_days, dbs |-> db_status,
   ups |-> upserts, psh |-> pushes, app |-> appended]

get_timestamp == now

get_today_date == today

DefaultStatus == [isOpen |-> 0, lastOpened |-> 0, lastClosed |-> 0]

EmptyDay(d) == <<[date |-> d, numOfOpenings |-> 0, openings |-> <<>>]>>

HasKey(dd, d) == \E i \in 1..Len(dd) : dd[i].date = d

\* document(id).set(doc)
DocSet(db, id, doc) ==
  [k \in (DOMAIN db) \cup {id} |-> IF k = id THEN doc ELSE db[k]]

\* variant: the episode is appended but the counter is left alone
current_openings_to_json_nocount(sd, dd, td) ==
  LET new_entry == [opened |-> sd.lastOpened, closed |-> sd.lastClosed]
  IN IF HasKey(dd, td)
     THEN [i \in 1..Len(dd) |->
             IF dd[i].date = td
             THEN [dd[i] EXCEPT !.openings = Append(@, new_entry)]
             ELSE dd[i]]
     ELSE <<[date |-> td, numOfOpenings |-> 1, openings |-> <<new_entry>>]>>

\* variant: on a new day the new key is added and the old one is kept
current_openings_to_json_keepold(sd, dd, td) ==
  LET new_entry == [opened |-> sd.lastOpened, closed |-> sd.lastClosed]
  IN IF HasKey(dd, td)
     THEN [i \in 1..Len(dd) |->
             IF dd[i].date = td
             THEN [dd[i] EXCEPT !.numOfOpenings = @ + 1,
                                !.openings = Append(@, new_entry)]
             ELSE dd[i]]
     ELSE Append(dd, [date |-> td, numOfOpenings |-> 1, openings |-> <<new_entry>>])

\* variant: the two timestamps of the new entry are exchanged
current_openings_to_json_swapped(sd, dd, td) ==
  LET new_entry == [opened |-> sd.lastClosed, closed |-> sd.lastOpened]
  IN IF HasKey(dd, td)
     THEN [i \in 1..Len(dd) |->
             IF dd[i].date = td
             THEN [dd[i] EXCEPT !.numOfOpenings = @ + 1,
                                !.openings = Append(@, new_entry)]
             ELSE dd[i]]
     ELSE <<[date |-> td, numOfOpenings |-> 1, openings |-> <<new_entry>>]>>

current_openings_to_json(sd, dd, td) ==
  LET new_entry == [opened |-> sd.lastOpened, closed |-> sd.lastClosed]
  IN IF HasKey(dd, td)
     THEN [i \in 1..Len(dd) |->
             IF dd[i].date = td
             THEN [dd[i] EXCEPT !.numOfOpenings = @ + 1,
                                !.openings = Append(@, new_entry)]
             ELSE dd[i]]
     ELSE <<[date |-> td, numOfOpenings |-> 1, openings |-> <<new_entry>>]>>

status_to_firebase(w, ok) ==
  LET doc == [isOpen |-> w.sd.isOpen, lastOpened |-> w.sd.lastOpened,
              lastClosed |-> w.sd.lastClosed]
  IN [w EXCEPT !.psh = Append(@, [doc |-> doc, ok |-> ok]),
               !.dbs = IF ok THEN <<doc>> ELSE @]

send_full_data_to_db(w, ok) ==
  IF Len(w.dd) = 0
  THEN w
  ELSE LET date_id == w.dd[1].date
           doc == [num_of_openings |-> w.dd[1].numOfOpenings,
                   openings |-> w.dd[1].openings]
       IN [w EXCEPT !.ups = Append(@, [date |-> date_id, doc |-> doc, ok |-> ok]),
                    !.db = IF ok THEN DocSet(@, date_id, doc) ELSE @]

\* variant: no early return when the status is unchanged
update_status_noreturn(w, status, t, td, okFlush, okPush) ==
  LET sd1 == IF status = 0
             THEN [w.sd EXCEPT !.isOpen = status, !.lastClosed = t]
             ELSE [w.sd EXCEPT !.isOpen = status, !.lastOpened = t]
      w1 == [w EXCEPT !.sd = sd1]
  IN IF status = 0 /\ sd1.lastOpened # 0
     THEN IF Len(w1.dd) = 0
          THEN w1
          ELSE LET w2 == IF td # w1.dd[1].date
                         THEN send_full_data_to_db(w1, okFlush)
                         ELSE w1
                   w3 == [w2 EXCEPT
                            !.dd = current_openings_to_json(w2.sd, w2.dd, td),
                            !.app[td] = Append(@, [opened |-> w2.sd.lastOpened,
                                                   closed |-> w2.sd.lastClosed])]
               IN status_to_firebase(w3, okPush)
     ELSE status_to_firebase(w1, okPush)

\* variant: the stale day is sent after the new episode has been written
update_status_flush_late(w, status, t, td, okFlush, okPush) ==
  IF w.sd.isOpen = status
  THEN w
  ELSE LET sd1 == IF status = 0
                  THEN [w.sd EXCEPT !.isOpen = status, !.lastClosed = t]
                  ELSE [w.sd EXCEPT !.isOpen = status, !.lastOpened = t]
           w1 == [w EXCEPT !.sd = sd1]
       IN IF status = 0 /\ sd1.lastOpened # 0
          THEN IF Len(w1.dd) = 0
               THEN w1
               ELSE LET w2 == [w1 EXCEPT
                                 !.dd = current_openings_to_json(w1.sd, w1.dd, td),
                                 !.app[td] = Append(@, [opened |-> w1.sd.lastOpened,
                                                        closed |-> w1.sd.lastClosed])]
                        w3 == IF td # w1.dd[1].date
                              THEN send_full_data_to_db(w2, okFlush)
                              ELSE w2
                    IN status_to_firebase(w3, okPush)
          ELSE status_to_firebase(w1, okPush)

\* variant: a closing edge is paired even when lastOpened is 0
update_status_nopairguard(w, status, t, td, okFlush, okPush) ==
  IF w.sd.isOpen = status
  THEN w
  ELSE LET sd1 == IF status = 0
                  THEN [w.sd EXCEPT !.isOpen = status, !.lastClosed = t]
                  ELSE [w.sd EXCEPT !.isOpen = status, !.lastOpened = t]
           w1 == [w EXCEPT !.sd = sd1]
       IN IF status = 0
          THEN IF Len(w1.dd) = 0
               THEN w1
               ELSE LET w2 == IF td # w1.dd[1].date
                              THEN send_full_data_to_db(w1, okFlush)
                              ELSE w1
                        w3 == [w2 EXCEPT
                                 !.dd = current_openings_to_json(w2.sd, w2.dd, td),
                                 !.app[td] = Append(@, [opened |-> w2.sd.lastOpened,
                                                        closed |-> w2.sd.lastClosed])]
                    IN status_to_firebase(w3, okPush)
          ELSE status_to_firebase(w1, okPush)

\* variant: the timestamp is stored in the field of the other direction
update_status_swapped(w, status, t, td, okFlush, okPush) ==
  IF w.sd.isOpen = status
  THEN w
  ELSE LET sd1 == IF status = 1
                  THEN [w.sd EXCEPT !.isOpen = status, !.lastClosed = t]
                  ELSE [w.sd EXCEPT !.isOpen = status, !.lastOpened = t]
           w1 == [w EXCEPT !.sd = sd1]
       IN IF status = 0 /\ sd1.lastOpened # 0
          THEN IF Len(w1.dd) = 0
               THEN w1
               ELSE LET w2 == IF td # w1.dd[1].date
                              THEN send_full_data_to_db(w1, okFlush)
                              ELSE w1
                        w3 == [w2 EXCEPT
                                 !.dd = current_openings_to_json(w2.sd, w2.dd, td),
                                 !.app[td] = Append(@, [opened |-> w2.sd.lastOpened,
                                                        closed |-> w2.sd.lastClosed])]
                    IN status_to_firebase(w3, okPush)
          ELSE status_to_firebase(w1, okPush)

\* variant: the status is pushed before the new record is stored
update_status_push_first(w, status, t, td, okFlush, okPush) ==
  IF w.sd.isOpen = status
  THEN w
  ELSE LET sd1 == IF status = 0
                  THEN [w.sd EXCEPT !.isOpen = status, !.lastClosed = t]
                  ELSE [w.sd EXCEPT !.isOpen = status, !.lastOpened = t]
           w1 == [status_to_firebase(w, okPush) EXCEPT !.sd = sd1]
       IN IF status = 0 /\ sd1.lastOpened # 0
          THEN IF Len(w1.dd) = 0
               THEN w1
               ELSE LET w2 == IF td # w1.dd[1].date
                              THEN send_full_data_to_db(w1, okFlush)
                              ELSE w1
                    IN [w2 EXCEPT
                          !.dd = current_openings_to_json(w2.sd, w2.dd, td),
                          !.app[td] = Append(@, [opened |-> w2.sd.lastOpened,
                                                 closed |-> w2.sd.lastClosed])]
          ELSE w1

\* variant: an exception of the day upsert leaves the handler
update_status_abort_on_fail(w, status, t, td, okFlush, okPush) ==
  IF w.sd.isOpen = status
  THEN w
  ELSE LET sd1 == IF status = 0
                  THEN [w.sd EXCEPT !.isOpen = status, !.lastClosed = t]
                  ELSE [w.sd EXCEPT !.isOpen = status, !.lastOpened = t]
           w1 == [w EXCEPT !.sd = sd1]
       IN IF status = 0 /\ sd1.lastOpened # 0
          THEN IF Len(w1.dd) = 0
               THEN w1
               ELSE IF td # w1.dd[1].date /\ ~okFlush
               THEN send_full_data_to_db(w1, okFlush)
               ELSE LET w2 == IF td # w1.dd[1].date
                              THEN send_full_data_to_db(w1, okFlush)
                              ELSE w1
                        w3 == [w2 EXCEPT
                                 !.dd = current_openings_to_json(w2.sd, w2.dd, td),
                                 !.app[td] = Append(@, [opened |-> w2.sd.lastOpened,
                                                        closed |-> w2.sd.lastClosed])]
                    IN status_to_firebase(w3, okPush)
          ELSE status_to_firebase(w1, okPush)

update_status(w, status, t, td, okFlush, okPush) ==
  IF w.sd.isOpen = status
  THEN w
  ELSE LET sd1 == IF status = 0
                  THEN [w.sd EXCEPT !.isOpen = status, !.lastClosed = t]
                  ELSE [w.sd EXCEPT !.isOpen = status, !.lastOpened = t]
           w1 == [w EXCEPT !.sd = sd1]
       IN IF status = 0 /\ sd1.lastOpened # 0
          THEN IF Len(w1.dd) = 0
               THEN w1
               ELSE LET w2 == IF td # w1.dd[1].date
                              THEN send_full_data_to_db(w1, okFlush)
                              ELSE w1
                        w3 == [w2 EXCEPT
                                 !.dd = current_openings_to_json(w2.sd, w2.dd, td),
                                 !.app[td] = Append(@, [opened |-> w2.sd.lastOpened,
                                                        closed |-> w2.sd.lastClosed])]
                    IN status_to_firebase(w3, okPush)
          ELSE status_to_firebase(w1, okPush)

\* variant: the reset advances the stored date by one day instead of to today
new_day_is_here_nextday(w, td, okExists, okFlush) ==
  IF Len(w.dd) = 0 \/ ~okExists
  THEN w
  ELSE LET date_id == w.dd[1].date
       IN IF date_id \in DOMAIN w.db
          THEN w
          ELSE [send_full_data_to_db(w, okFlush) EXCEPT !.dd = EmptyDay(date_id + 1)]

\* variant: no existence check before the flush
new_day_is_here_nocheck(w, td, okExists, okFlush) ==
  IF Len(w.dd) = 0 \/ ~okExists
  THEN w
  ELSE [send_full_data_to_db(w, okFlush) EXCEPT !.dd = EmptyDay(td)]

\* variant: the job also pushes the status document
new_day_is_here_pushes(w, td, okExists, okFlush) ==
  IF Len(w.dd) = 0 \/ ~okExists
  THEN w
  ELSE LET date_id == w.dd[1].date
       IN IF date_id \in DOMAIN w.db
          THEN w
          ELSE status_to_firebase(
                 [send_full_data_to_db(w, okFlush) EXCEPT !.dd = EmptyDay(td)], TRUE)

new_day_is_here(w, td, okExists, okFlush) ==
  IF Len(w.dd) = 0 \/ ~okExists
  THEN w
  ELSE LET date_id == w.dd[1].date
       IN IF date_id \in DOMAIN w.db
          THEN w
          ELSE [send_full_data_to_db(w, okFlush) EXCEPT !.dd = EmptyDay(td)]

\* ---------- ghost record of the last handler run ----------
FilesPresent == [status |-> "present", day |-> "present"]

NoRun ==
  [op |-> "none", status |-> 0, t |-> 0, td |-> 0, files |-> FilesPresent,
   okExists |-> TRUE, okFlush |-> TRUE, okPush |-> TRUE,
   sd |-> DefaultStatus, dd |-> <<>>, db |-> <<>>, nups |-> 0, npsh |-> 0]

Run(op, status, okExists, okFlush, okPush) ==
  [op |-> op, status |-> status, t |-> now, td |-> today, files |-> files,
   okExists |-> okExists, okFlush |-> okFlush, okPush |-> okPush,
   sd |-> status_data, dd |-> day_data, db |-> db_days,
   nups |-> Len(upserts), npsh |-> Len(pushes)]

\* ---------- initial state: both files freshly created ----------
NoLocals == [sd |-> DefaultStatus, dd |-> <<>>, fdd |-> <<>>]

NoSnap == [status |-> 0, sd |-> DefaultStatus, dd |-> <<>>, db |-> <<>>, nups |-> 0]

Init ==
  /\ status_data = DefaultStatus
  /\ day_data = EmptyDay(1)
  /\ db_days = <<>>
  /\ db_status = <<>>
  /\ now = 1
  /\ today = 1
  /\ timerFired = TRUE
  /\ lastEdge = 0
  /\ upserts = <<>>
  /\ pushes = <<>>
  /\ appended = [d \in Days |-> <<>>]
  /\ openedAt = 0
  /\ failures = 0
  /\ files = FilesPresent
  /\ last = NoRun
  /\ pcE = "idle"
  /\ pcT = "idle"
  /\ eloc = NoLocals
  /\ tloc = NoLocals
  /\ snap = NoSnap

Install(w) ==
  /\ status_data' = w.sd
  /\ day_data' = w.dd
  /\ db_days' = w.db
  /\ db_status' = w.dbs
  /\ upserts' = w.ups
  /\ pushes' = w.psh
  /\ appended' = w.app

Idle == pcE = "idle" /\ pcT = "idle"

Raised(ok) == IF ok THEN 0 ELSE 1

\* ---------- actions: each handler runs alone, start to end ----------
Tick ==
  /\ Idle
  /\ now < MaxTime
  /\ now' = now + 1
  /\ last' = NoRun
  /\ UNCHANGED <<status_data, day_data, db_days, db_status, today, timerFired,
                 lastEdge, upserts, pushes, appended, openedAt, failures>>
  /\ UNCHANGED threadVars
  /\ UNCHANGED files

Midnight ==
  /\ Idle
  /\ today < MaxDay
  /\ timerFired
  /\ today' = today + 1
  /\ timerFired' = FALSE
  /\ last' = NoRun
  /\ UNCHANGED <<status_data, day_data, db_days, db_status, now,
                 lastEdge, upserts, pushes, appended, openedAt, failures>>
  /\ UNCHANGED threadVars
  /\ UNCHANGED files

Edge(status, okFlush, okPush) ==
  /\ Idle
  /\ now > lastEdge
  /\ lastEdge' = now
  /\ Install(update_status(World, status, get_timestamp, get_today_date,
                           okFlush, okPush))
  /\ openedAt' = IF status = 1 /\ status_data.isOpen # status THEN now ELSE openedAt
  /\ failures + Raised(okFlush) + Raised(okPush) <= MaxFailures
  /\ failures' = failures + Raised(okFlush) + Raised(okPush)
  /\ last' = Run("edge", status, TRUE, okFlush, okPush)
  /\ UNCHANGED <<now, today, timerFired>>
  /\ UNCHANGED threadVars
  /\ UNCHANGED files

Timer(okExists, okFlush) ==
  /\ Idle
  /\ ~timerFired
  /\ timerFired' = TRUE
  /\ Install(new_day_is_here(World, get_today_date, okExists, okFlush))
  /\ failures + Raised(okExists) + Raised(okFlush) <= MaxFailures
  /\ failures' = failures + Raised(okExists) + Raised(okFlush)
  /\ last' = Run("timer", 0, okExists, okFlush, TRUE)
  /\ UNCHANGED <<now, today, lastEdge, openedAt>>
  /\ UNCHANGED threadVars
  /\ UNCHANGED files

when_released == Edge(1, TRUE, TRUE)

when_pressed == Edge(0, TRUE, TRUE)

cron_job == Timer(TRUE, TRUE)

Next == Tick \/ Midnight \/ when_released \/ when_pressed \/ cron_job

\* every remote call succeeds
Spec == Init /\ [][Next]_vars

\* ---------- start of a process over files left by an earlier run ----------
NeedsDefault(f) == f \in {"absent", "empty"}

\* variant: the defaults are written at every start
initialization_always(f, sd, dd, td) ==
  [files |-> FilesPresent, sd |-> DefaultStatus, dd |-> EmptyDay(td)]

initialization(f, sd, dd, td) ==
  [files |-> [status |-> IF NeedsDefault(f.status) THEN "present" ELSE f.status,
              day |-> IF NeedsDefault(f.day) THEN "present" ELSE f.day],
   sd |-> IF NeedsDefault(f.status) THEN DefaultStatus ELSE sd,
   dd |-> IF NeedsDefault(f.day) THEN EmptyDay(td) ELSE dd]

PersistedStatus ==
  [isOpen : {0, 1}, lastOpened : 0..PersistedTime, lastClosed : 0..PersistedTime]

PersistedOpenings == {<<>>, <<[opened |-> PersistedTime, closed |-> PersistedTime]>>}

PersistedDay ==
  {<<[date |-> d, numOfOpenings |-> Len(o), openings |-> o]>> :
      d \in 1..BootDay, o \in PersistedOpenings}

InitBoot ==
  /\ files \in [status : {"absent", "empty", "present"},
                day : {"absent", "empty", "present"}]
  /\ IF files.status = "present"
     THEN status_data \in PersistedStatus
     ELSE status_data = [isOpen |-> 1, lastOpened |-> 0, lastClosed |-> 0]
  /\ IF files.day = "present"
     THEN day_data \in PersistedDay
     ELSE day_data = <<>>
  /\ db_days = <<>>
  /\ db_status = <<>>
  /\ now = PersistedTime + 1
  /\ today = BootDay
  /\ timerFired = TRUE
  /\ lastEdge = 0
  /\ upserts = <<>>
  /\ pushes = <<>>
  /\ appended = [d \in Days |-> <<>>]
  /\ openedAt = 0
  /\ failures = 0
  /\ last = NoRun
  /\ pcE = "boot"
  /\ pcT = "boot"
  /\ eloc = NoLocals
  /\ tloc = NoLocals
  /\ snap = NoSnap

RunInitialization ==
  LET r == initialization(files, status_data, day_data, get_today_date)
  IN /\ files' = r.files
     /\ status_data' = r.sd
     /\ day_data' = r.dd
     /\ last' = Run("init", 0, TRUE, TRUE, TRUE)
     /\ pcE' = "idle"
     /\ pcT' = "idle"
     /\ UNCHANGED <<db_days, db_status, now, today, timerFired, lastEdge, upserts,
                    pushes, appended, openedAt, failures, eloc, tloc, snap>>

\* first start of the process
Boot == pcE = "boot" /\ pcT = "boot" /\ RunInitialization

\* the process is stopped between two handler runs and started again
Restart == Idle /\ RunInitialization

NextBoot ==
  Boot \/ Restart \/ Tick \/ Midnight \/ when_released \/ when_pressed \/ cron_job

SpecBoot == InitBoot /\ [][NextBoot]_vars

\* ---------- remote calls may raise ----------
EdgeUnreliable == \E status \in {0, 1}, okFlush \in BOOLEAN, okPush \in BOOLEAN :
                     Edge(status, okFlush, okPush)

TimerUnreliable == \E okExists \in BOOLEAN, okFlush \in BOOLEAN :
                      Timer(okExists, okFlush)

NextFail == Tick \/ Midnight \/ EdgeUnreliable \/ TimerUnreliable

SpecFail == Init /\ [][NextFail]_vars

\* ---------- the two handlers on their own threads, statement by statement ----------
\* The Button callback thread and the BackgroundScheduler thread share the two
\* files and take no lock; a step is one file read, one file write or one
\* remote call.
StartRace(status) ==
  /\ Idle
  /\ now > lastEdge
  /\ ~timerFired
  /\ lastEdge' = now
  /\ timerFired' = TRUE
  /\ snap' = [status |-> status, sd |-> status_data, dd |-> day_data,
              db |-> db_days, nups |-> Len(upserts)]
  /\ pcE' = "e117"
  /\ pcT' = "t161"
  /\ last' = NoRun
  /\ UNCHANGED <<status_data, day_data, db_days, db_status, now, today, upserts,
                 pushes, appended, openedAt, failures, eloc, tloc>>
  /\ UNCHANGED files

StartOverlap == \E status \in {0, 1} : StartRace(status)

\* update_status, lines 117-121
E_read_status ==
  /\ pcE = "e117"
  /\ eloc' = [eloc EXCEPT !.sd = status_data]
  /\ pcE' = IF status_data.isOpen = snap.status THEN "done" ELSE "e123"
  /\ UNCHANGED <<status_data, day_data, db_days, db_status, now, today, timerFired,
                 lastEdge, upserts, pushes, appended, openedAt, failures, last,
                 pcT, tloc, snap>>
  /\ UNCHANGED files

\* update_status, lines 123-138
E_write_status ==
  /\ pcE = "e123"
  /\ LET sd1 == IF snap.status = 0
                THEN [eloc.sd EXCEPT !.isOpen = snap.status, !.lastClosed = get_timestamp]
                ELSE [eloc.sd EXCEPT !.isOpen = snap.status, !.lastOpened = get_timestamp]
     IN /\ status_data' = sd1
        /\ eloc' = [eloc EXCEPT !.sd = sd1]
        /\ pcE' = IF snap.status = 0 /\ sd1.lastOpened # 0 THEN "e142" ELSE "e84"
  /\ openedAt' = IF snap.status = 1 THEN now ELSE openedAt
  /\ UNCHANGED <<day_data, db_days, db_status, now, today, timerFired,
                 lastEdge, upserts, pushes, appended, failures, last,
                 pcT, tloc, snap>>
  /\ UNCHANGED files

\* update_status, lines 142-145
E_check_date ==
  /\ pcE = "e142"
  /\ eloc' = [eloc EXCEPT !.dd = day_data]
  /\ pcE' = IF Len(day_data) = 0 THEN "done"
            ELSE IF get_today_date # day_data[1].date THEN "e101" ELSE "e58"
  /\ UNCHANGED <<status_data, day_data, db_days, db_status, now, today, timerFired,
                 lastEdge, upserts, pushes, appended, openedAt, failures, last,
                 pcT, tloc, snap>>
  /\ UNCHANGED files

\* send_full_data_to_db called at line 146: line 101
E_flush_read ==
  /\ pcE = "e101"
  /\ eloc' = [eloc EXCEPT !.fdd = day_data]
  /\ pcE' = "e106"
  /\ UNCHANGED <<status_data, day_data, db_days, db_status, now, today, timerFired,
                 lastEdge, upserts, pushes, appended, openedAt, failures, last,
                 pcT, tloc, snap>>
  /\ UNCHANGED files

\* send_full_data_to_db called at line 146: lines 102-109
E_flush_set ==
  /\ pcE = "e106"
  /\ LET w == send_full_data_to_db([World EXCEPT !.dd = eloc.fdd], TRUE)
     IN db_days' = w.db /\ upserts' = w.ups
  /\ pcE' = "e58"
  /\ UNCHANGED <<status_data, day_data, db_status, now, today, timerFired,
                 lastEdge, pushes, appended, openedAt, failures, last,
                 eloc, pcT, tloc, snap>>
  /\ UNCHANGED files

\* current_openings_to_json, lines 58-61
E_append_read ==
  /\ pcE = "e58"
  /\ eloc' = [eloc EXCEPT !.sd = status_data, !.dd = day_data]
  /\ pcE' = "e63"
  /\ UNCHANGED <<status_data, day_data, db_days, db_status, now, today, timerFired,
                 lastEdge, upserts, pushes, appended, openedAt, failures, last,
                 pcT, tloc, snap>>
  /\ UNCHANGED files

\* current_openings_to_json, lines 63-77
E_append_write ==
  /\ pcE = "e63"
  /\ day_data' = current_openings_to_json(eloc.sd, eloc.dd, get_today_date)
  /\ appended' = [appended EXCEPT ![get_today_date] =
                    Append(@, [opened |-> eloc.sd.lastOpened,
                               closed |-> eloc.sd.lastClosed])]
  /\ pcE' = "e84"
  /\ UNCHANGED <<status_data, db_days, db_status, now, today, timerFired,
                 lastEdge, upserts, pushes, openedAt, failures, last,
                 eloc, pcT, tloc, snap>>
  /\ UNCHANGED files

\* status_to_firebase called at line 151: lines 84-91
E_push_status ==
  /\ pcE = "e84"
  /\ LET w == status_to_firebase(World, TRUE)
     IN db_status' = w.dbs /\ pushes' = w.psh
  /\ pcE' = "done"
  /\ UNCHANGED <<status_data, day_data, db_days, now, today, timerFired,
                 lastEdge, upserts, appended, openedAt, failures, last,
                 eloc, pcT, tloc, snap>>
  /\ UNCHANGED files

\* new_day_is_here, lines 161-162
T_read_day ==
  /\ pcT = "t161"
  /\ tloc' = [tloc EXCEPT !.dd = day_data]
  /\ pcT' = IF Len(day_data) = 0 THEN "done" ELSE "t164"
  /\ UNCHANGED <<status_data, day_data, db_days, db_status, now, today, timerFired,
                 lastEdge, upserts, pushes, appended, openedAt, failures, last,
                 pcE, eloc, snap>>
  /\ UNCHANGED files

\* new_day_is_here, lines 164-166
T_exists ==
  /\ pcT = "t164"
  /\ pcT' = IF tloc.dd[1].date \in DOMAIN db_days THEN "done" ELSE "t101"
  /\ UNCHANGED <<status_data, day_data, db_days, db_status, now, today, timerFired,
                 lastEdge, upserts, pushes, appended, openedAt, failures, last,
                 pcE, eloc, tloc, snap>>
  /\ UNCHANGED files

\* send_full_data_to_db called at line 168: line 101
T_flush_read ==
  /\ pcT = "t101"
  /\ tloc' = [tloc EXCEPT !.fdd = day_data]
  /\ pcT' = "t106"
  /\ UNCHANGED <<status_data, day_data, db_days, db_status, now, today, timerFired,
                 lastEdge, upserts, pushes, appended, openedAt, failures, last,
                 pcE, eloc, snap>>
  /\ UNCHANGED files

\* send_full_data_to_db called at line 168: lines 102-109
T_flush_set ==
  /\ pcT = "t106"
  /\ LET w == send_full_data_to_db([World EXCEPT !.dd = tloc.fdd], TRUE)
     IN db_days' = w.db /\ upserts' = w.ups
  /\ pcT' = "t170"
  /\ UNCHANGED <<status_data, day_data, db_status, now, today, timerFired,
                 lastEdge, pushes, appended, openedAt, failures, last,
                 pcE, eloc, tloc, snap>>
  /\ UNCHANGED files

\* new_day_is_here, lines 170-177
T_reset ==
  /\ pcT = "t170"
  /\ day_data' = EmptyDay(get_today_date)
  /\ pcT' = "done"
  /\ UNCHANGED <<status_data, db_days, db_status, now, today, timerFired,
                 lastEdge, upserts, pushes, appended, openedAt, failures, last,
                 pcE, eloc, tloc, snap>>
  /\ UNCHANGED files

NextConc ==
  \/ Tick \/ Midnight \/ when_released \/ when_pressed \/ cron_job
  \/ StartOverlap
  \/ E_read_status \/ E_write_status \/ E_check_date \/ E_flush_read
  \/ E_flush_set \/ E_append_read \/ E_append_write \/ E_push_status
  \/ T_read_day \/ T_exists \/ T_flush_read \/ T_flush_set \/ T_reset

SpecConc == Init /\ [][NextConc]_vars

\* ---------- properties ----------
Range(s) == {s[i] : i \in 1..Len(s)}

Count(e, s) == Cardinality({i \in 1..Len(s) : s[i] = e})

\* the document(date_id).set calls of the last handler run
LastFlushes == SubSeq(upserts, last.nups + 1, Len(upserts))

DocOf(entry) == [num_of_openings |-> entry.numOfOpenings, openings |-> entry.openings]

RealClosing == last.op = "edge" /\ last.status = 0 /\ last.sd.isOpen = 1

\* C1: after every firing of new_day_is_here with the remote store reachable,
\* day_data is {today: {numOfOpenings: 0, openings: []}}, whether or not the
\* remote store already held a document for the stored date.
C1_ResetAfterEveryFiring ==
  last.op = "timer" => day_data = EmptyDay(today)

\* C2: once day_data is dated later than D, the remote document of D holds
\* every episode that was appended while day_data was dated D, each exactly once.
C2_NoEpisodeLost ==
  \A d \in Days :
    (Len(day_data) = 1 /\ day_data[1].date > d) =>
       \A i \in 1..Len(appended[d]) :
          /\ d \in DOMAIN db_days
          /\ Count(appended[d][i], db_days[d].openings) = 1

\* C3: document(D).set is issued at most once for any date id D.
C3_OneUpsertPerDate ==
  \A i, j \in 1..Len(upserts) : i # j => upserts[i].date # upserts[j].date

\* C4: when one update_status call and one new_day_is_here call overlap, the
\* resulting day_data and the set of day upserts are those of one of the two
\* serial orders.
SnapWorld ==
  [sd |-> snap.sd, dd |-> snap.dd, db |-> snap.db, dbs |-> <<>>,
   ups |-> <<>>, psh |-> <<>>, app |-> [d \in Days |-> <<>>]]

SerialEdgeFirst ==
  new_day_is_here(update_status(SnapWorld, snap.status, now, today, TRUE, TRUE),
                  today, TRUE, TRUE)

SerialTimerFirst ==
  update_status(new_day_is_here(SnapWorld, today, TRUE, TRUE),
                snap.status, now, today, TRUE, TRUE)

Outcome(dd, ups) == [dd |-> dd, ups |-> Range(ups)]

C4_OverlapIsSerializable ==
  (pcE = "done" /\ pcT = "done") =>
     Outcome(day_data, SubSeq(upserts, snap.nups + 1, Len(upserts)))
        \in {Outcome(SerialEdgeFirst.dd, SerialEdgeFirst.ups),
             Outcome(SerialTimerFirst.dd, SerialTimerFirst.ups)}

\* C5: update_status called with the stored isOpen changes neither
\* current_status.json nor day_data.json and issues no day upsert.
C5_SameStatusIsNoOp ==
  (last.op = "edge" /\ last.status = last.sd.isOpen) =>
     /\ status_data = last.sd
     /\ day_data = last.dd
     /\ Len(upserts) = last.nups

\* a repeated closing edge on a later day than the stored date, after an opening
C5_Witness ==
  /\ last.op = "edge" /\ last.status = 0 /\ last.sd.isOpen = 0
  /\ last.sd.lastOpened # 0
  /\ last.dd[1].date # last.td

\* C6: the closing edge at t2 that follows the opening edge at t1 appends exactly
\* the episode {opened: t1, closed: t2} and raises numOfOpenings by one (or sets
\* it to 1 when day_data is replaced for a new date); an opening edge leaves
\* day_data alone.
C6_OpenClosePairing ==
  /\ (last.op = "edge" /\ last.status = 1) => day_data = last.dd
  /\ RealClosing =>
       LET ep == [opened |-> openedAt, closed |-> last.t]
       IN /\ Len(day_data) = 1
          /\ day_data[1].date = last.td
          /\ IF last.dd[1].date = last.td
             THEN /\ day_data[1].openings = Append(last.dd[1].openings, ep)
                  /\ day_data[1].numOfOpenings = last.dd[1].numOfOpenings + 1
             ELSE /\ day_data[1].openings = <<ep>>
                  /\ day_data[1].numOfOpenings = 1

\* a second episode of the same day has just been appended
C6_Witness ==
  /\ RealClosing
  /\ last.dd[1].date = last.td
  /\ Len(last.dd[1].openings) >= 1
  /\ openedAt < last.t

\* C7: a pairing closing edge on a day other than the stored date D issues
\* document(D).set with the whole stale aggregate, and leaves day_data dated
\* today with the new episode alone and numOfOpenings = 1.
C7_StaleDayFlushedBeforeAppend ==
  (RealClosing /\ last.sd.lastOpened # 0 /\ last.dd[1].date # last.td) =>
     /\ LastFlushes = <<[date |-> last.dd[1].date, doc |-> DocOf(last.dd[1]),
                         ok |-> TRUE]>>
     /\ db_days[last.dd[1].date] = DocOf(last.dd[1])
     /\ day_data = <<[date |-> last.td, numOfOpenings |-> 1,
                      openings |-> <<[opened |-> last.sd.lastOpened,
                                      closed |-> last.t]>>]>>

\* the stale aggregate held an episode of its own
C7_Witness ==
  /\ RealClosing /\ last.sd.lastOpened # 0 /\ last.dd[1].date # last.td
  /\ last.dd[1].numOfOpenings >= 1

\* C8: a firing on day T with day_data dated D <= T - 2 and no remote document
\* for D issues one upsert, keyed by D, resets day_data to {T: 0, []} and leaves
\* the dates strictly between D and T without a document.
C8_MultiDaySilence ==
  (/\ last.op = "timer" /\ last.okExists
   /\ last.dd[1].date + 2 <= last.td
   /\ last.dd[1].date \notin DOMAIN last.db) =>
     /\ Len(LastFlushes) = 1
     /\ LastFlushes[1].date = last.dd[1].date
     /\ LastFlushes[1].doc = DocOf(last.dd[1])
     /\ day_data = EmptyDay(last.td)
     /\ \A d \in Days : (last.dd[1].date < d /\ d < last.td) => d \notin DOMAIN db_days

C8_Witness ==
  /\ last.op = "timer" /\ last.okExists /\ last.okFlush
  /\ last.dd[1].date + 2 <= last.td
  /\ last.dd[1].date \notin DOMAIN last.db
  /\ last.dd[1].date \in DOMAIN db_days

\* C9: a firing that finds a remote document for the stored date issues no
\* day upsert and leaves that document as it is.
C9_NoUpsertWhenPresent ==
  (last.op = "timer" /\ last.dd[1].date \in DOMAIN last.db) =>
     /\ Len(upserts) = last.nups
     /\ db_days = last.db

\* the remote document differs from what day_data holds
C9_Witness ==
  /\ last.op = "timer" /\ last.dd[1].date \in DOMAIN last.db
  /\ last.db[last.dd[1].date] # DocOf(last.dd[1])

\* C10: whenever a closing edge is processed, day_data is dated today or
\* yesterday.
C10_BoundedDrift ==
  (last.op = "edge" /\ last.status = 0) => last.dd[1].date + 1 >= last.td

\* C11: a closing edge that changes isOpen while lastOpened is 0 stores
\* isOpen = 0 and lastClosed = now, leaves day_data as it was and issues no
\* day upsert.
C11_CloseWithoutPriorOpen ==
  (RealClosing /\ last.sd.lastOpened = 0) =>
     /\ status_data = [isOpen |-> 0, lastOpened |-> 0, lastClosed |-> last.t]
     /\ day_data = last.dd
     /\ Len(upserts) = last.nups

\* the stored date is stale, so a pairing closing edge would have flushed
C11_Witness ==
  /\ RealClosing /\ last.sd.lastOpened = 0
  /\ last.dd[1].date # last.td
  /\ status_data.isOpen = 0

\* C17: the initialization writes the defaults only for a file that is absent
\* or empty, and leaves an existing non-empty file as it is; a restart between
\* two handler runs therefore changes neither file.
C17_InitializationOnlyWhenMissing ==
  last.op = "init" =>
     /\ files = FilesPresent
     /\ status_data = IF NeedsDefault(last.files.status) THEN DefaultStatus ELSE last.sd
     /\ day_data = IF NeedsDefault(last.files.day) THEN EmptyDay(last.td) ELSE last.dd

\* a restart over files that handlers have written since the first start
C17_Witness ==
  /\ last.op = "init"
  /\ last.files = FilesPresent
  /\ Len(pushes) >= 1
  /\ status_data # DefaultStatus
  /\ day_data # EmptyDay(today)

\* C12: in every state of day_data.json, numOfOpenings equals the length of
\* openings.
C12_CountMatchesLength ==
  \A i \in 1..Len(day_data) :
     day_data[i].numOfOpenings = Len(day_data[i].openings)

C12_Witness ==
  /\ Len(day_data) >= 1
  /\ Len(day_data[1].openings) >= 2

\* C13: day_data.json holds exactly one date key in every state.
C13_SingleDateKey == Len(day_data) = 1

\* a closing edge has just replaced the stored date by a new one
C13_Witness ==
  /\ last.op = "edge"
  /\ Len(last.dd) = 1
  /\ ~HasKey(last.dd, last.td)
  /\ HasKey(day_data, last.td)

\* C19: from the default files, isOpen = 1 implies lastOpened # 0, so every
\* closing edge that changes isOpen passes the lastOpened # 0 guard and appends
\* an episode.
C19_OpenImpliesOpenedRecorded ==
  /\ status_data.isOpen = 1 => status_data.lastOpened # 0
  /\ RealClosing =>
       /\ last.sd.lastOpened # 0
       /\ Len(appended[last.td]) >= 1
       /\ appended[last.td][Len(appended[last.td])] =
             [opened |-> last.sd.lastOpened, closed |-> last.t]
       /\ HasKey(day_data, last.td)
       /\ day_data # last.dd

C19_Witness ==
  /\ RealClosing
  /\ last.sd.lastOpened = openedAt
  /\ openedAt > 0
  /\ status_data.lastClosed = last.t

\* C20: every episode in day_data.json or in a remote day document has
\* opened <= closed; lastClosed >= lastOpened while isOpen is 0 and
\* lastOpened >= lastClosed while isOpen is 1.
EpisodesOrdered(openings) ==
  \A k \in 1..Len(openings) : openings[k].opened <= openings[k].closed

C20_TimestampsOrdered ==
  /\ \A i \in 1..Len(day_data) : EpisodesOrdered(day_data[i].openings)
  /\ \A d \in DOMAIN db_days : EpisodesOrdered(db_days[d].openings)
  /\ \A i \in 1..Len(upserts) : EpisodesOrdered(upserts[i].doc.openings)
  /\ status_data.isOpen = 0 => status_data.lastClosed >= status_data.lastOpened
  /\ status_data.isOpen = 1 => status_data.lastOpened >= status_data.lastClosed

\* the door is open again after an episode that has reached the remote store
C20_Witness ==
  /\ status_data.isOpen = 1
  /\ status_data.lastClosed > 0
  /\ \E d \in DOMAIN db_days : Len(db_days[d].openings) >= 1
  /\ Len(day_data[1].openings) >= 1

RealTransition == last.op = "edge" /\ last.status # last.sd.isOpen

\* C14: every edge that changes isOpen stores the new current_status.json and
\* issues exactly one status upsert, carrying the stored record; when the latest
\* status upsert succeeded, the remote status document equals the local record.
C14_StatusPushedAfterPersist ==
  /\ RealTransition =>
       /\ status_data.isOpen = last.status
       /\ Len(pushes) = last.npsh + 1
       /\ pushes[Len(pushes)].doc = status_data
       /\ pushes[Len(pushes)].ok = last.okPush
  /\ (Len(pushes) >= 1 /\ pushes[Len(pushes)].ok) => db_status = <<status_data>>

\* a successful push after one that had failed
C14_Witness ==
  /\ RealTransition /\ last.okPush
  /\ last.npsh >= 1
  /\ ~pushes[last.npsh].ok
  /\ db_status = <<status_data>>

\* C15: a remote call that raises during update_status does not undo or cut
\* short the local transition: the new isOpen and timestamp are stored, and a
\* pairing closing edge still appends its episode.
C15_RemoteFailureKeepsLocalTransition ==
  (RealTransition /\ (~last.okFlush \/ ~last.okPush)) =>
     /\ status_data = IF last.status = 0
                      THEN [last.sd EXCEPT !.isOpen = 0, !.lastClosed = last.t]
                      ELSE [last.sd EXCEPT !.isOpen = 1, !.lastOpened = last.t]
     /\ IF last.status = 0 /\ last.sd.lastOpened # 0
        THEN /\ Len(day_data) = 1
             /\ day_data[1].date = last.td
             /\ day_data[1].openings =
                   (IF last.dd[1].date = last.td THEN last.dd[1].openings ELSE <<>>)
                   \o <<[opened |-> last.sd.lastOpened, closed |-> last.t]>>
             /\ day_data[1].numOfOpenings = Len(day_data[1].openings)
        ELSE day_data = last.dd

\* both the stale-day upsert and the status upsert of one closing edge raised
C15_Witness ==
  /\ RealClosing /\ ~last.okFlush /\ ~last.okPush
  /\ Len(LastFlushes) = 1
  /\ db_days = last.db

\* C16: when a day upsert for D fails, day_data is still made to be dated
\* today by the same handler run, and no later handler run issues a day upsert
\* for D.
C16_FailedFlushNotRetried ==
  /\ (last.op \in {"edge", "timer"} /\ Len(LastFlushes) = 1 /\ ~LastFlushes[1].ok) =>
        (Len(day_data) = 1 /\ day_data[1].date = last.td)
  /\ \A i, j \in 1..Len(upserts) :
        (i < j /\ ~upserts[i].ok) => upserts[j].date # upserts[i].date

\* C18: new_day_is_here leaves current_status.json as it is and issues no
\* status upsert, in every branch.
C18_TimerLeavesStatusAlone ==
  last.op = "timer" =>
     /\ status_data = last.sd
     /\ Len(pushes) = last.npsh

\* a firing that flushed and reset while the door was open
C18_Witness ==
  /\ last.op = "timer"
  /\ Len(upserts) > last.nups
  /\ day_data # last.dd
  /\ last.sd.isOpen = 1

====
